---- MODULE Spec2Model ----
(***************************************************************************)
(* gitsm: per-repository SSH key binding and stash-guarded branch switch.  *)
(*                                                                         *)
(* Five specifications share this module:                                  *)
(*   SpecSwitch     the branch switch engine (SwitchCommand.execute)       *)
(*   SpecBind       clone / convert / fix, the binding store and the       *)
(*                  repository's core.sshCommand                           *)
(*   SpecReconcile  the text upsert of sshCommand in .git/config           *)
(*   SpecTest       the key tester (SSHManager.testSSHKey)                 *)
(*   SpecScan       the key scanner (SSHManager.discoverSSHKeys)           *)
(*                                                                         *)
(* Text (command output, command lines, configuration files, paths) is a   *)
(* sequence of tokens, each token a run of characters; the regular         *)
(* expressions of the source are evaluated over these tokens.              *)
(***************************************************************************)
EXTENDS Integers, Sequences, FiniteSets, TLC

VARIABLES
  \* ---- the working repository seen by SwitchCommand
  branch,      \* the checked-out branch
  exists,      \* the branches that exist (locally or on origin)
  head,        \* head[b]: committed content of file f on branch b
  wt,          \* content of file f in the working tree
  untracked,   \* an untracked file is present
  unmerged,    \* the index holds unmerged entries
  stash,       \* the stash list, stash@{0} first
  stashSeq,    \* number of stash entries created so far (entry identity)
  sw,          \* the running switch command
  swHist,      \* the finished switch commands, oldest first
  \* ---- the binding store, the repositories and the running bind command
  storeFile,   \* ~/.gitsm/config.json
  gitcfg,      \* gitcfg[r]: value of core.sshCommand in repository r
  remote,      \* remote[r]: URL of origin in repository r
  cloned,      \* the repositories that exist on disk
  keyFiles,    \* the key paths that exist on disk
  clock,       \* the time new Date() returns
  cmd,         \* the running clone / convert / fix command
  up,          \* the running RepoConfigManager.setRepoConfig call
  bindLog,     \* the finished commands, oldest first
  \* ---- the configuration text under the sshCommand upsert
  cfgText,     \* content of .git/config
  cfgLog,      \* the upserts applied: key path, text before, text after
  \* ---- the key tester and the key scanner
  tst,         \* a call of SSHManager.testSSHKey: its inputs and its result
  scan         \* a call of SSHManager.discoverSSHKeys: ~/.ssh and its result

switchVars == <<branch, exists, head, wt, untracked, unmerged, stash, stashSeq, sw, swHist>>
bindVars == <<storeFile, gitcfg, remote, cloned, keyFiles, clock, cmd, up, bindLog>>
reconcileVars == <<cfgText, cfgLog>>
keysVars == <<tst, scan>>
vars == <<switchVars, bindVars, reconcileVars, keysVars>>

\* ------------------------------------------------------------------ bounds

MaxRuns == 2
MaxCmds == 2
MaxLines == 3
MaxUpserts == 2

\* ------------------------------------------------------------ text helpers

IsWS(t) == t \in {" ", "\t", "\n"}

\* Index of the first element of s at or after i that satisfies no "stop" test,
\* used as: the end of a run.
RECURSIVE RunEnd(_, _, _)
RunEnd(s, i, ok) ==
  IF i <= Len(s) /\ s[i] \in ok THEN RunEnd(s, i + 1, ok) ELSE i - 1

\* A command line split into words at its blanks, as the shell does for text
\* without quotes.
RECURSIVE ShellWords(_)
ShellWords(s) ==
  IF s = <<>> THEN <<>>
  ELSE IF s[1] = " " THEN ShellWords(Tail(s))
  ELSE LET e == CHOOSE j \in 1..Len(s) :
                  /\ \A k \in 1..j : s[k] # " "
                  /\ (j = Len(s) \/ s[j + 1] = " ")
       IN <<SubSeq(s, 1, e)>> \o ShellWords(SubSeq(s, e + 1, Len(s)))

\* ------------------------------------------------------------ switch: git

AllBranches == {"A", "B", "C"}
NoEntry == 0

\* git stash push -m "Auto-stash before switching to <target>": what it prints.
StashSavedOutput(cur, target) ==
  <<"Saved working directory", " and index ", "state", " ", "On", " ", cur, ":",
    " ", "Auto-stash before switching to ", target, "\n">>
StashNothingOutput == <<"No local changes to save", "\n">>

\* The entry a stash reference names: 0 when the words name none.
\* git stash apply / drop take one revision; "stash@{0}" is the newest entry.
StashTarget(words, list) ==
  IF Len(words) # 1 THEN NoEntry
  ELSE IF words[1] = <<"stash@{0}">> /\ Len(list) >= 1 THEN 1
  ELSE NoEntry

\* ----------------------------------------------------- switch: the command

\* The regular expression /Saved working directory.*state\s+(.*?):/ on the
\* output of stash push; 'stash@{0}' when it does not match.
getStashId(stashOutput) ==
  LET n == Len(stashOutput)
      NoNL(i, j) == \A k \in i..j : stashOutput[k] # "\n"
      \* (s, c): "state" at s, blanks after it, the first ":" after them at c
      Match(s, c) ==
        /\ stashOutput[1] = "Saved working directory"
        /\ 1 < s /\ stashOutput[s] = "state" /\ NoNL(2, s - 1)
        /\ s + 1 <= n /\ IsWS(stashOutput[s + 1])
        /\ LET w == RunEnd(stashOutput, s + 1, {" ", "\t", "\n"})
           IN /\ w < c /\ c <= n /\ stashOutput[c] = ":"
              /\ \A k \in (w + 1)..(c - 1) : stashOutput[k] \notin {":", "\n"}
      Hits == {p \in (1..n) \X (1..n) : Match(p[1], p[2])}
  IN IF n = 0 \/ Hits = {} THEN <<"stash@{0}">>
     ELSE LET s == CHOOSE x \in {p[1] : p \in Hits} :
                     \A y \in {p[1] : p \in Hits} : y <= x
              c == CHOOSE x \in {p[2] : p \in {q \in Hits : q[1] = s}} : TRUE
              w == RunEnd(stashOutput, s + 1, {" ", "\t", "\n"})
          IN SubSeq(stashOutput, w + 1, c - 1)

SwIdle ==
  [pc |-> "idle", from |-> "A", target |-> "A", force |-> FALSE, noPull |-> FALSE,
   createBranch |-> FALSE, branchExists |-> TRUE, hasChanges |-> FALSE,
   stashId |-> <<>>, pushed |-> NoEntry, applied |-> NoEntry, dropped |-> NoEntry,
   reported |-> <<>>, exit |-> 0, pre |-> "a", preDirty |-> FALSE, stash0 |-> 0,
   conflict |-> FALSE, distinctError |-> FALSE, cmds |-> <<>>]

\* git status --porcelain prints something
hasUncommittedChanges == wt # head[branch] \/ untracked \/ unmerged

\* git status --porcelain has a UU, AA or DD line
hasConflicts == unmerged

\* both git rev-parse --verify taken to succeed
branchExistsAssumed(b) == TRUE

\* git rev-parse --verify <branch>, then origin/<branch>
branchExistsOp(b) == b \in exists

\* the text the outer catch looks for in error.message
Refusal == "Please commit your changes or stash them"

\* a targetBranch argument of more than one word, the text above among them
OddTarget == "x Please commit your changes or stash them"

\* the values of the targetBranch argument
Targets == AllBranches \cup {OddTarget}

\* the argument as it is pasted into a command line
TargetText(t) == IF t = OddTarget THEN <<"x", " ", Refusal>> ELSE <<t>>

\* the message of the error execSync throws on a non-zero exit status: the
\* command, then the captured stderr; nothing is captured with stdio 'inherit'
ExecSyncError(command, stderr) ==
  <<"Command failed: ">> \o command \o
    (IF stderr = <<>> THEN <<>> ELSE <<"\n">> \o stderr)

\* 'git stash push -m "Auto-stash before switching to ' + targetBranch + '"'
StashPushCommand(t) ==
  <<"git stash push -m ", "\"", "Auto-stash before switching to ">> \o
    TargetText(t) \o <<"\"">>

\* `git checkout -b ${targetBranch}` or `git checkout ${targetBranch}`
CheckoutCommand(r) ==
  <<"git checkout ">> \o
    (IF ~r.branchExists /\ r.createBranch THEN <<"-b ">> ELSE <<>>) \o
    TargetText(r.target)

\* error.message.includes('Please commit your changes or stash them')
IsDistinctError(message) == \E i \in 1..Len(message) : message[i] = Refusal

\* the comparison skipped: a run on the target branch goes on like any other
onTargetBranchSkipped(currentBranch, targetBranch) == FALSE

\* currentBranch === targetBranch
onTargetBranch(currentBranch, targetBranch) == currentBranch = targetBranch

\* execute(targetBranch, options), up to the first command that changes state
SwBegin ==
  /\ sw.pc = "idle"
  /\ Len(swHist) < MaxRuns
  /\ \E t \in Targets, f \in BOOLEAN, np \in BOOLEAN, cb \in BOOLEAN :
       LET r0 == [SwIdle EXCEPT !.from = branch, !.target = t, !.force = f,
                                !.noPull = np, !.createBranch = cb,
                                !.branchExists = branchExistsOp(t),
                                !.pre = wt, !.preDirty = (wt # head[branch]),
                                !.stash0 = Len(stash), !.conflict = unmerged]
       IN sw' =
            IF onTargetBranch(branch, t)
              THEN [r0 EXCEPT !.pc = IF np THEN "done" ELSE "samePull"]
            ELSE IF ~branchExistsOp(t) /\ ~cb
              THEN [r0 EXCEPT !.pc = "done", !.exit = 1]
            ELSE [r0 EXCEPT !.hasChanges = hasUncommittedChanges,
                            !.pc = IF hasUncommittedChanges THEN "stash"
                                   ELSE "checkout"]
  /\ UNCHANGED <<branch, exists, head, wt, untracked, unmerged, stash, stashSeq, swHist>>
  /\ UNCHANGED <<bindVars, reconcileVars, keysVars>>

\* already on the target branch: git pull, not guarded by a try of its own
SwSamePull ==
  /\ sw.pc = "samePull"
  /\ \E ok \in BOOLEAN :
       sw' = [sw EXCEPT !.pc = "done", !.cmds = Append(@, "pull"),
                        !.exit = IF ok THEN 0 ELSE 1,
                        !.distinctError =
                          ~ok /\ IsDistinctError(ExecSyncError(<<"git pull">>, <<>>))]
  /\ UNCHANGED <<branch, exists, head, wt, untracked, unmerged, stash, stashSeq, swHist>>
  /\ UNCHANGED <<bindVars, reconcileVars, keysVars>>

\* git stash push -m "Auto-stash before switching to <target>"
SwStash ==
  /\ sw.pc = "stash"
  /\ IF unmerged
       THEN \* git refuses to stash an unmerged index; the error reaches the outer catch
            /\ sw' = [sw EXCEPT !.pc = "done", !.exit = 1,
                                !.cmds = Append(@, "stash push"),
                                !.distinctError =
                                  IsDistinctError(ExecSyncError(
                                    StashPushCommand(sw.target),
                                    <<"f: needs merge", "\n">>))]
            /\ UNCHANGED <<wt, stash, stashSeq>>
     ELSE IF wt # head[branch]
       THEN /\ stashSeq' = stashSeq + 1
            /\ stash' = <<[uid |-> stashSeq + 1, base |-> head[branch],
                           content |-> wt]>> \o stash
            /\ wt' = head[branch]
            /\ sw' = [sw EXCEPT !.pc = "checkout", !.pushed = stashSeq + 1,
                                !.stashId = getStashId(StashSavedOutput(branch, sw.target)),
                                !.cmds = Append(@, "stash push")]
     ELSE \* only untracked files: nothing is saved, exit status 0
            /\ sw' = [sw EXCEPT !.pc = "checkout",
                                !.stashId = getStashId(StashNothingOutput),
                                !.cmds = Append(@, "stash push")]
            /\ UNCHANGED <<wt, stash, stashSeq>>
  /\ UNCHANGED <<branch, exists, head, untracked, unmerged, swHist>>
  /\ UNCHANGED <<bindVars, reconcileVars, keysVars>>

\* git checkout <target>, or git checkout -b <target>
SwCheckout ==
  /\ sw.pc = "checkout"
  /\ \/ \* the checkout succeeds
        /\ ~unmerged
        /\ Len(ShellWords(TargetText(sw.target))) = 1
        /\ branch' = sw.target
        /\ exists' = exists \cup {sw.target}
        /\ head' = IF sw.branchExists THEN head
                   ELSE [head EXCEPT ![sw.target] = head[branch]]
        /\ wt' = IF sw.branchExists THEN head[sw.target] ELSE wt
        /\ sw' = [sw EXCEPT !.pc = "pull", !.cmds = Append(@, "checkout")]
     \/ \* git refuses: unmerged index, an untracked file in the way, or
        \* arguments that name no branch
        /\ unmerged \/ untracked \/ Len(ShellWords(TargetText(sw.target))) # 1
        /\ sw' = [sw EXCEPT !.pc = "done", !.exit = 1,
                            !.cmds = Append(@, "checkout"),
                            !.distinctError =
                              IsDistinctError(ExecSyncError(CheckoutCommand(sw), <<>>))]
        /\ UNCHANGED <<branch, exists, head, wt>>
  /\ UNCHANGED <<untracked, unmerged, stash, stashSeq, swHist>>
  /\ UNCHANGED <<bindVars, reconcileVars, keysVars>>

\* git pull after the checkout; a failure is printed and the run goes on
SwPull ==
  /\ sw.pc = "pull"
  /\ LET next == IF sw.hasChanges /\ sw.stashId # <<>> THEN "apply" ELSE "done"
     IN IF ~sw.noPull /\ sw.branchExists
          THEN \E out \in {"ok", "fail", "conflict"} :
                 /\ sw' = [sw EXCEPT !.pc = next, !.cmds = Append(@, "pull"),
                                     !.conflict = @ \/ (out = "conflict")]
                 /\ unmerged' = (unmerged \/ out = "conflict")
                 /\ wt' = IF out = "conflict" THEN "markers" ELSE wt
          ELSE /\ sw' = [sw EXCEPT !.pc = next]
               /\ UNCHANGED <<unmerged, wt>>
  /\ UNCHANGED <<branch, exists, head, untracked, stash, stashSeq, swHist>>
  /\ UNCHANGED <<bindVars, reconcileVars, keysVars>>

\* git stash apply <stashId> outside the try: a failure does not end the run
SwApplyUnchecked ==
  /\ sw.pc = "apply"
  /\ LET i == StashTarget(ShellWords(sw.stashId), stash)
         logged == [sw EXCEPT !.cmds = Append(@, "stash apply"), !.pc = "check"]
     IN IF i = NoEntry \/ unmerged \/ wt # head[branch]
          THEN /\ sw' = logged
               /\ UNCHANGED <<wt, unmerged>>
        ELSE IF wt = stash[i].base \/ wt = stash[i].content
          THEN /\ wt' = stash[i].content
               /\ sw' = [logged EXCEPT !.applied = stash[i].uid]
               /\ UNCHANGED unmerged
        ELSE /\ wt' = "markers"
             /\ unmerged' = TRUE
             /\ sw' = [logged EXCEPT !.applied = stash[i].uid, !.conflict = TRUE]
  /\ UNCHANGED <<branch, exists, head, untracked, stash, stashSeq, swHist>>
  /\ UNCHANGED <<bindVars, reconcileVars, keysVars>>

\* git stash apply <stashId>
SwApply ==
  /\ sw.pc = "apply"
  /\ LET i == StashTarget(ShellWords(sw.stashId), stash)
         logged == [sw EXCEPT !.cmds = Append(@, "stash apply")]
         failed == [logged EXCEPT !.pc = "done", !.reported = sw.stashId]
     IN IF i = NoEntry \/ unmerged \/ wt # head[branch]
          THEN \* no such entry, or git refuses to touch the tree
               /\ sw' = failed
               /\ UNCHANGED <<wt, unmerged>>
        ELSE IF wt = stash[i].base \/ wt = stash[i].content
          THEN /\ wt' = stash[i].content
               /\ sw' = [logged EXCEPT !.pc = "check", !.applied = stash[i].uid]
               /\ UNCHANGED unmerged
        ELSE \* both sides changed f: conflict markers, exit status 1
               /\ wt' = "markers"
               /\ unmerged' = TRUE
               /\ sw' = [failed EXCEPT !.applied = stash[i].uid, !.conflict = TRUE]
  /\ UNCHANGED <<branch, exists, head, untracked, stash, stashSeq, swHist>>
  /\ UNCHANGED <<bindVars, reconcileVars, keysVars>>

\* hasConflicts(), then git stash drop <stashId> or the stash is kept
SwCheck ==
  /\ sw.pc = "check"
  /\ IF hasConflicts
       THEN /\ sw' = [sw EXCEPT !.pc = "done", !.reported = sw.stashId]
            /\ UNCHANGED stash
     ELSE LET i == StashTarget(ShellWords(sw.stashId), stash)
          IN IF i = NoEntry
               THEN /\ sw' = [sw EXCEPT !.pc = "done", !.reported = sw.stashId,
                                        !.cmds = Append(@, "stash drop")]
                    /\ UNCHANGED stash
             ELSE /\ stash' = SubSeq(stash, 1, i - 1) \o SubSeq(stash, i + 1, Len(stash))
                  /\ sw' = [sw EXCEPT !.pc = "done", !.dropped = stash[i].uid,
                                      !.cmds = Append(@, "stash drop")]
  /\ UNCHANGED <<branch, exists, head, wt, untracked, unmerged, stashSeq, swHist>>
  /\ UNCHANGED <<bindVars, reconcileVars, keysVars>>

\* the command returns or exits
SwEnd ==
  /\ sw.pc = "done"
  /\ swHist' = Append(swHist, sw)
  /\ sw' = SwIdle
  /\ UNCHANGED <<branch, exists, head, wt, untracked, unmerged, stash, stashSeq>>
  /\ UNCHANGED <<bindVars, reconcileVars, keysVars>>

SwitchInit ==
  /\ branch = "A"
  /\ exists = {"A", "B"}
  /\ \E hb \in {"a", "b"} : head = [b \in AllBranches |-> IF b = "B" THEN hb ELSE "a"]
  /\ wt \in {"a", "e"}
  /\ untracked \in BOOLEAN
  /\ unmerged = FALSE
  /\ \E n \in 0..1 : /\ stashSeq = n
                     /\ stash = [k \in 1..n |-> [uid |-> k, base |-> "a", content |-> "s"]]
  /\ sw = SwIdle
  /\ swHist = <<>>

SwitchNext ==
  \/ SwBegin \/ SwSamePull \/ SwStash \/ SwCheckout \/ SwPull \/ SwApply
  \/ SwCheck \/ SwEnd

\* ------------------------------------------------- parked state of a part

SwitchParked ==
  /\ branch = "A" /\ exists = {"A"} /\ head = [b \in AllBranches |-> "a"]
  /\ wt = "a" /\ untracked = FALSE /\ unmerged = FALSE /\ stash = <<>>
  /\ stashSeq = 0 /\ sw = SwIdle /\ swHist = <<>>

BindParked ==
  /\ storeFile = "absent" /\ gitcfg = <<>> /\ remote = <<>> /\ cloned = {}
  /\ keyFiles = {} /\ clock = 0 /\ cmd = <<>> /\ up = <<>> /\ bindLog = <<>>

ReconcileParked ==
  /\ cfgText = <<>> /\ cfgLog = <<>>

KeysParked ==
  /\ tst = <<>> /\ scan = <<>>

SwitchStart == SwitchInit /\ BindParked /\ ReconcileParked /\ KeysParked

SpecSwitch == SwitchStart /\ [][SwitchNext]_vars

\* --------------------------------------------- key paths and the directive

\* The key paths of the model: a POSIX path, a Windows path as path.join
\* builds it, and a path with a '[' in a directory name.
KeyPosix == <<"/home/u/.ssh/", "id_a">>
KeyWindows == <<"C:", "\\", "Users", "\\", "id_b">>
KeyBracket == <<"/home/u/.ssh/", "[x]", "id_a">>
KeyPaths == {KeyPosix, KeyWindows, KeyBracket}

\* String.replace(/\\/g, '/')
ReplaceBackslashes(p) == [i \in 1..Len(p) |-> IF p[i] = "\\" THEN "/" ELSE p[i]]

\* PathUtils.normalizeForSSH: path.resolve (the identity on the absolute paths
\* of the model), then every backslash becomes a forward slash.
normalizeForSSH(filePath) == ReplaceBackslashes(filePath)

OptsShort == <<" -F /dev/null -o IdentitiesOnly=yes">>
OptsFull ==
  OptsShort \o <<" -o StrictHostKeyChecking=no -o UserKnownHostsFile=/dev/null">>

\* sshConfigValue of cloneWithSSH and of FixCommand.execute:
\* ssh -i "<path with forward slashes>" -F /dev/null -o ... (the full options)
sshConfigValue(keyPath) ==
  <<"ssh -i ", "\"">> \o ReplaceBackslashes(keyPath) \o <<"\"">> \o OptsFull

\* ------------------------------------- the sshCommand upsert on .git/config

\* The tokens that hold a '[' character.
HasBracket(t) == t \in {"[core]", "[user]", "[x]"}

SshLine(value) == <<"sshCommand", " ", "=", " ">> \o value \o <<"\n">>

\* /sshCommand\s*=/ at position k of block
SshAssignAt(block, k) ==
  /\ block[k] = "sshCommand"
  /\ LET w == RunEnd(block, k + 1, {" ", "\t", "\n"})
     IN w + 1 <= Len(block) /\ block[w + 1] = "="

\* The text edit of cloneWithSSH: coreSectionRegex = /(^|\n)\[core\][^\[]*/,
\* then /sshCommand\s*=.*(\n|$)/ or /(\[core\][^\n]*\n)/ inside the match, or a
\* new section appended.
upsertSshCommand(configText, value) ==
  LET n == Len(configText)
      Starts == {i \in 1..n : configText[i] = "[core]"
                                /\ (i = 1 \/ configText[i - 1] = "\n")}
  IN IF Starts = {}
       THEN configText \o <<"\n", "[core]", "\n">> \o SshLine(value)
     ELSE
       LET h == CHOOSE i \in Starts : \A j \in Starts : i <= j
           from == IF h = 1 THEN 1 ELSE h - 1
           to == RunEnd(configText, h + 1, {t \in {configText[k] : k \in 1..n} :
                                              ~HasBracket(t)})
           coreBlock == SubSeq(configText, from, to)
           m == Len(coreBlock)
           Assigns == {k \in 1..m : SshAssignAt(coreBlock, k)}
           newBlock ==
             IF Assigns # {}
               THEN LET k == CHOOSE x \in Assigns : \A y \in Assigns : x <= y
                        w == RunEnd(coreBlock, k + 1, {" ", "\t", "\n"})
                        e == RunEnd(coreBlock, w + 2,
                                    {t \in {coreBlock[j] : j \in 1..m} : t # "\n"})
                        last == IF e + 1 <= m THEN e + 1 ELSE e
                    IN SubSeq(coreBlock, 1, k - 1) \o SshLine(value)
                         \o SubSeq(coreBlock, last + 1, m)
             ELSE LET c == h - from + 1
                      e == RunEnd(coreBlock, c + 1,
                                  {t \in {coreBlock[j] : j \in 1..m} : t # "\n"})
                  IN IF e + 1 <= m
                       THEN SubSeq(coreBlock, 1, e + 1) \o SshLine(value)
                              \o SubSeq(coreBlock, e + 2, m)
                     ELSE coreBlock
       IN SubSeq(configText, 1, from - 1) \o newBlock \o SubSeq(configText, to + 1, n)

\* The lines a configuration file is made of, each a token sequence without
\* its line end.
LineCore == <<"[core]">>
LineUser == <<"[user]">>
LineBare == <<"\t", "bare = false">>
LineName == <<"\t", "name = x">>
LineSshOld == <<"\t", "sshCommand", " ", "=", " ", "ssh -i old">>
LineKinds == {LineCore, LineUser, LineBare, LineName, LineSshOld}

RECURSIVE Flatten(_)
Flatten(ls) ==
  IF ls = <<>> THEN <<>> ELSE ls[1] \o <<"\n">> \o Flatten(Tail(ls))

\* A file as git writes it: it starts with a section header, no section
\* appears twice, and sshCommand appears at most once and only under [core].
SectionAt(ls, i) ==
  LET hs == {j \in 1..i : ls[j] \in {LineCore, LineUser}}
  IN IF hs = {} THEN <<>> ELSE ls[CHOOSE j \in hs : \A k \in hs : k <= j]
WellFormed(ls) ==
  /\ ls # <<>> => ls[1] \in {LineCore, LineUser}
  /\ \A i, j \in 1..Len(ls) :
       (i # j /\ ls[i] = ls[j]) => ls[i] \notin {LineCore, LineUser, LineSshOld}
  /\ \A i \in 1..Len(ls) : ls[i] = LineSshOld => SectionAt(ls, i) = LineCore
  /\ \A i \in 1..Len(ls) : ls[i] = LineBare => SectionAt(ls, i) = LineCore
  /\ \A i \in 1..Len(ls) : ls[i] = LineName => SectionAt(ls, i) = LineUser
ConfigTexts ==
  {Flatten(ls) : ls \in {x \in UNION {[1..k -> LineKinds] : k \in 1..MaxLines} :
                           WellFormed(x)}}

\* cloneWithSSH writes core.sshCommand for the chosen key into .git/config
RcUpsert ==
  /\ Len(cfgLog) < MaxUpserts
  /\ \E k \in KeyPaths :
       LET after == upsertSshCommand(cfgText, sshConfigValue(normalizeForSSH(k)))
       IN /\ cfgText' = after
          /\ cfgLog' = Append(cfgLog, [key |-> k, before |-> cfgText, after |-> after])
  /\ UNCHANGED <<switchVars, bindVars, keysVars>>

ReconcileInit ==
  /\ cfgText \in ConfigTexts
  /\ cfgLog = <<>>

ReconcileNext == RcUpsert

ReconcileStart == SwitchParked /\ BindParked /\ ReconcileInit /\ KeysParked

SpecReconcile == ReconcileStart /\ [][ReconcileNext]_vars

\* ------------------------------------------------------- claims: switch

\* Two finished runs: a dirty switch from A to the existing branch B, then a
\* switch back to A, neither forced, without error and without any conflict,
\* starting from an empty stash list.
RoundTripCase ==
  /\ Len(swHist) = 2
  /\ head["A"] = head["B"]
  /\ swHist[1].from = "A" /\ swHist[1].target = "B" /\ swHist[1].preDirty
  /\ swHist[1].stash0 = 0 /\ ~swHist[1].force /\ swHist[1].exit = 0
  /\ ~swHist[1].conflict
  /\ swHist[2].from = "B" /\ swHist[2].target = "A" /\ ~swHist[2].force
  /\ swHist[2].exit = 0 /\ ~swHist[2].conflict

\* C1: after a dirty switch from A to B and back to A without conflicts, file f
\* holds its content from before the first switch and the stash list is empty.
C1_RoundTripRestores ==
  RoundTripCase => (wt = swHist[1].pre /\ stash = <<>>)

\* C2: a switch run applies and drops no stash entry other than the one its own
\* stash push created.
C2_OnlyOwnStash ==
  /\ sw.applied # NoEntry => sw.applied = sw.pushed
  /\ sw.dropped # NoEntry => sw.dropped = sw.pushed

\* The run went through its reapply step.
Reapplied(r) == \E i \in 1..Len(r.cmds) : r.cmds[i] = "stash apply"

\* C3: when the working tree holds an unmerged entry after the reapply step, the
\* stash is not dropped and the identifier reported to the user is one that
\* stash apply accepts.
C3_ConflictPreservation ==
  (sw.pc = "done" /\ Reapplied(sw) /\ unmerged) =>
    /\ sw.dropped = NoEntry
    /\ StashTarget(ShellWords(sw.reported), stash) # NoEntry

\* ---------------------------------------------------- claims: reconciler

\* The lines of a text, without their line ends.
RECURSIVE SplitLines(_)
SplitLines(t) ==
  IF t = <<>> THEN <<>>
  ELSE LET e == RunEnd(t, 1, {x \in {t[k] : k \in 1..Len(t)} : x # "\n"})
       IN <<SubSeq(t, 1, e)>> \o SplitLines(SubSeq(t, e + 2, Len(t)))

\* Line i of ls assigns sshCommand and stands under the [core] header.
IsCoreSshLine(ls, i) ==
  /\ LET l == ls[i]
         w == RunEnd(l, 1, {" ", "\t"})
     IN w + 1 <= Len(l) /\ l[w + 1] = "sshCommand"
  /\ LET hs == {j \in 1..i : ls[j] # <<>> /\ HasBracket(ls[j][1])}
     IN hs # {} /\ ls[CHOOSE j \in hs : \A k \in hs : k <= j] = <<"[core]">>

CoreSshCount(t) ==
  LET ls == SplitLines(t) IN Cardinality({i \in 1..Len(ls) : IsCoreSshLine(ls, i)})

RECURSIVE Pick(_, _, _)
Pick(ls, i, keep) ==
  IF i > Len(ls) THEN <<>>
  ELSE (IF i \in keep THEN <<ls[i]>> ELSE <<>>) \o Pick(ls, i + 1, keep)

\* Every line of t but the sshCommand line of [core], in order.
OtherLines(t) ==
  LET ls == SplitLines(t)
  IN Pick(ls, 1, {i \in 1..Len(ls) : ~IsCoreSshLine(ls, i)})

HasCoreSection(t) ==
  LET ls == SplitLines(t) IN \E i \in 1..Len(ls) : ls[i] = <<"[core]">>

\* C6: the upsert applied twice with one key path gives the text it gives
\* applied once, and [core] then holds exactly one sshCommand line.
C6_UpsertIdempotent ==
  \A i \in 1..Len(cfgLog) :
    /\ CoreSshCount(cfgLog[i].after) = 1
    /\ (i > 1 /\ cfgLog[i].key = cfgLog[i - 1].key) =>
         cfgLog[i].after = cfgLog[i].before

\* C7: the upsert leaves every line other than the sshCommand line of [core]
\* as it was and in the same order (a [core] header is appended when the text
\* has none); with a changed key path only the sshCommand line changes.
C7_UpsertPreserves ==
  \A i \in 1..Len(cfgLog) :
    \/ OtherLines(cfgLog[i].after) = OtherLines(cfgLog[i].before)
    \/ /\ ~HasCoreSection(cfgLog[i].before)
       /\ OtherLines(cfgLog[i].after)
            = OtherLines(cfgLog[i].before) \o << <<>>, <<"[core]">> >>

\* ------------------------------------------- bind: paths, URLs, the store

BindKeys == {KeyPosix, KeyWindows}
NoDirective == <<>>
NoKey == <<>>
NoUrl == <<>>

RepoIds == {"r1", "r2"}

\* The spellings of the directory of repository r, the commands running in
\* /work: the absolute path and a relative one.
AbsPath(r) == <<"/work/", r>>
RelPath(r) == <<"./", r>>
PathSpellings(r) == {AbsPath(r), RelPath(r)}

\* path.resolve
pathResolve(p) == IF p[1] = "/work/" THEN p ELSE <<"/work/">> \o Tail(p)

\* The repository a path names when a command uses it as cwd.
RepoAt(p) == pathResolve(p)[2]

SshUrl(r) == <<"git@", "github.com", ":", "u", "/", r, ".git">>
HttpsUrl(r) == <<"https://", "github.com", "/", "u", "/", r, ".git">>

startsWith(s, prefix) == s # <<>> /\ s[1] = prefix

\* The pieces of s between the tokens sep.
RECURSIVE SplitOn(_, _)
SplitOn(s, sep) ==
  LET e == RunEnd(s, 1, {x \in {s[k] : k \in 1..Len(s)} : x # sep})
  IN IF e = Len(s) THEN <<s>>
     ELSE <<SubSeq(s, 1, e)>> \o SplitOn(SubSeq(s, e + 2, Len(s)), sep)

\* GitWrapper.convertToHTTPS: /git@([^:]+):(.+)/ becomes https://<host>/<path>
convertToHTTPS(sshUrl) ==
  IF startsWith(sshUrl, "git@")
    THEN LET n == Len(sshUrl)
             e == RunEnd(sshUrl, 2, {x \in {sshUrl[k] : k \in 1..n} : x # ":"})
         IN IF e >= 2 /\ e + 2 <= n
              THEN <<"https://">> \o SubSeq(sshUrl, 2, e) \o <<"/">>
                     \o SubSeq(sshUrl, e + 2, n)
            ELSE sshUrl
  ELSE sshUrl

\* ConvertCommand.convertHttpsToSsh: new URL(), pathname.split('/'), the
\* '.git' suffix of the third piece removed and '.git' appended; NoUrl stands
\* for the Error it throws.
convertHttpsToSsh(httpsUrl) ==
  IF ~startsWith(httpsUrl, "https://") THEN NoUrl
  ELSE LET n == Len(httpsUrl)
           e == RunEnd(httpsUrl, 2, {x \in {httpsUrl[k] : k \in 1..n} : x # "/"})
           pathParts == SplitOn(SubSeq(httpsUrl, e + 1, n), "/")
       IN IF e < 2 \/ Len(pathParts) < 3 THEN NoUrl
          ELSE LET user == pathParts[2]
                   p3 == pathParts[3]
                   repo == IF p3 # <<>> /\ p3[Len(p3)] = ".git"
                             THEN SubSeq(p3, 1, Len(p3) - 1) ELSE p3
               IN <<"git@">> \o SubSeq(httpsUrl, 2, e) \o <<":">> \o user
                    \o <<"/">> \o repo \o <<".git">>

\* Quote removal: what the shell does to the words of a command line, and
\* what git does to a value it reads from a configuration file.
RECURSIVE StripQuotes(_)
StripQuotes(s) ==
  IF s = <<>> THEN <<>>
  ELSE (IF Head(s) = "\"" THEN <<>> ELSE <<Head(s)>>) \o StripQuotes(Tail(s))

\* The value git reads for core.sshCommand from the text of .git/config.
GitConfigGet(text) ==
  LET ls == SplitLines(text)
      hits == {i \in 1..Len(ls) : IsCoreSshLine(ls, i)}
  IN IF hits = {} THEN NoDirective
     ELSE LET l == ls[CHOOSE i \in hits : \A j \in hits : j <= i]
              k == RunEnd(l, 1, {" ", "\t"}) + 1
              e == RunEnd(l, k + 1, {" ", "\t"}) + 1
              v == RunEnd(l, e + 1, {" ", "\t"})
          IN StripQuotes(SubSeq(l, v + 1, Len(l)))

\* .git/config of a fresh clone
FreshConfig == Flatten(<<LineCore, LineBare, LineUser, LineName>>)

\* core.sshCommand after the text edit of cloneWithSSH
cloneWithSSHValue(sshKeyPath) ==
  GitConfigGet(upsertSshCommand(FreshConfig,
                                sshConfigValue(normalizeForSSH(sshKeyPath))))

\* core.sshCommand after configureRepo's
\*   git config core.sshCommand "ssh -i "<path>" -F /dev/null -o ..."
\* has gone through the shell
configureRepoValue(sshKeyPath) ==
  StripQuotes(<<"\"", "ssh -i ", "\"">> \o normalizeForSSH(sshKeyPath)
                \o <<"\"">> \o OptsFull \o <<"\"">>)

\* core.sshCommand after setupRepoGitConfig's
\*   git config core.sshCommand "ssh -i <path> -F /dev/null -o IdentitiesOnly=yes"
setupRepoGitConfigValue(sshKeyPath) ==
  StripQuotes(<<"\"", "ssh -i ">> \o sshKeyPath \o OptsShort \o <<"\"">>)

\* ~/.gitsm/config.json: absent, or the GSMConfig it holds
StoreAbsent == [present |-> FALSE, repositories |-> <<>>, defaultSSHPath |-> <<>>]
defaultConfig ==
  [present |-> TRUE, repositories |-> <<>>,
   defaultSSHPath |-> <<"/home/u", "/", ".ssh">>]

\* RepoConfigManager.loadConfig: the file's content, the default (which it
\* saves) when there is no file
loadConfig(file) == IF file.present THEN file ELSE defaultConfig

\* fs.writeJson: a Date becomes its ISO string, a string stays a string
toJSON(createdAt) ==
  IF createdAt[1] = "Date" THEN <<"iso", createdAt[2]>> ELSE createdAt
writeJson(config) ==
  [config EXCEPT !.repositories =
     [p \in DOMAIN @ |-> [@[p] EXCEPT !.createdAt = toJSON(@)]]]

RepoConfigOf(repoPath, sshKeyPath, remoteUrl, now) ==
  [repoPath |-> repoPath, sshKeyPath |-> sshKeyPath, remoteUrl |-> remoteUrl,
   createdAt |-> <<"Date", now>>]

\* A save that writes the new entry alone.
UpsertEntryAlone(config, repoPath, entry) ==
  [config EXCEPT !.repositories = (repoPath :> entry)]

\* config.repositories[repoPath] = { ... }
UpsertEntry(config, repoPath, entry) ==
  [config EXCEPT !.repositories = (repoPath :> entry) @@ @]

\* A setRepoConfig that catches what setupRepoGitConfig raises.
setupRepoGitConfigSwallowed(written) == "ok"

\* await this.setupRepoGitConfig(...) inside setRepoConfig: no try/catch, so
\* what the call raises is what setRepoConfig raises
setupRepoGitConfigResult(written) == IF written THEN "ok" ELSE "throw"

\* ------------------------------------------------ bind: the running calls

CmdIdle ==
  [name |-> "none", pc |-> "idle", path |-> <<>>, url |-> NoUrl, key |-> NoKey,
   ret |-> "", onThrow |-> "", success |-> FALSE, exit |-> 0,
   prompted |-> FALSE, writeFailed |-> FALSE,
   switchToSSH |-> FALSE, testOk |-> FALSE, proceedAnyway |-> FALSE,
   disagreed |-> FALSE]

UpIdle ==
  [pc |-> "idle", repoPath |-> <<>>, sshKeyPath |-> NoKey, remoteUrl |-> NoUrl,
   existed |-> FALSE, failedAt |-> "none", result |-> "none"]

\* The command goes on at a label: "success" and "fatal" end it, with the
\* success message or with process.exit(1).
Land(c, label) ==
  IF label = "success" THEN [c EXCEPT !.pc = "done", !.success = TRUE]
  ELSE IF label = "fatal" THEN [c EXCEPT !.pc = "done", !.exit = 1]
  ELSE [c EXCEPT !.pc = label]

\* The return left out: the command goes on to configure the repository.
ReturnMissing(c) == [c EXCEPT !.pc = "configure", !.ret = "success", !.onThrow = "fatal"]

\* The command returns early: nothing is reported as done, the exit code is 0.
Returned(c) == [c EXCEPT !.pc = "done"]

\* configManager.setRepoConfig(repoPath, sshKeyPath, remoteUrl) is entered
CallSetRepoConfig(repoPath, sshKeyPath, remoteUrl) ==
  [UpIdle EXCEPT !.pc = "save", !.repoPath = repoPath,
                 !.sshKeyPath = sshKeyPath, !.remoteUrl = remoteUrl]

BindUnchanged == UNCHANGED <<switchVars, reconcileVars, keysVars>>

\* ---------------------------------- RepoConfigManager.setRepoConfig (upsert)

\* loadConfig, the entry assigned, saveConfig
UpSave ==
  /\ up.pc = "save"
  /\ LET config == loadConfig(storeFile)
         entry == RepoConfigOf(up.repoPath, up.sshKeyPath, up.remoteUrl, clock)
     IN \E saved \in BOOLEAN :
          IF saved
            THEN /\ storeFile' = writeJson(UpsertEntry(config, up.repoPath, entry))
                 /\ up' = [up EXCEPT !.pc = "gitconfig",
                                     !.existed = up.repoPath \in DOMAIN config.repositories]
          ELSE /\ storeFile' = writeJson(config)
               /\ up' = [up EXCEPT !.pc = "return", !.failedAt = "save",
                                   !.result = "throw"]
  /\ clock' = clock + 1
  /\ UNCHANGED <<gitcfg, remote, cloned, keyFiles, cmd, bindLog>>
  /\ BindUnchanged

\* setupRepoGitConfig: git config core.sshCommand "ssh -i <key> ..." when the
\* repository has a .git/config
UpGitConfig ==
  /\ up.pc = "gitconfig"
  /\ LET r == RepoAt(up.repoPath)
     IN IF r \in cloned
          THEN \E written \in BOOLEAN :
                 /\ gitcfg' = IF written
                                THEN [gitcfg EXCEPT ![r] = setupRepoGitConfigValue(up.sshKeyPath)]
                              ELSE gitcfg
                 /\ up' = [up EXCEPT !.pc = "return",
                                     !.failedAt = IF written THEN "none" ELSE "gitconfig",
                                     !.result = setupRepoGitConfigResult(written)]
        ELSE /\ gitcfg' = gitcfg
             /\ up' = [up EXCEPT !.pc = "return", !.result = "ok"]
  /\ UNCHANGED <<storeFile, remote, cloned, keyFiles, clock, cmd, bindLog>>
  /\ BindUnchanged

\* setRepoConfig returns to, or throws into, the command that called it
UpReturn ==
  /\ up.pc = "return"
  /\ cmd' = IF up.result = "ok" THEN Land(cmd, cmd.ret)
            ELSE Land([cmd EXCEPT !.writeFailed = TRUE], cmd.onThrow)
  /\ up' = UpIdle
  /\ UNCHANGED <<storeFile, gitcfg, remote, cloned, keyFiles, clock, bindLog>>
  /\ BindUnchanged

\* ------------------------------------------------- CloneCommand (clone.ts)

\* execute: the target directory must not exist; --https or an HTTPS URL goes
\* to cloneWithHTTPS, an SSH URL to trySSHClone
CloneBegin ==
  /\ cmd.pc = "idle" /\ Len(bindLog) < MaxCmds
  /\ \E r \in RepoIds, https \in BOOLEAN :
       \E targetDir \in PathSpellings(r), repoUrl \in {SshUrl(r), HttpsUrl(r)} :
         LET fullTargetPath == pathResolve(targetDir)
             c == [CmdIdle EXCEPT !.name = "clone", !.path = fullTargetPath,
                                  !.url = repoUrl]
         IN cmd' = IF RepoAt(fullTargetPath) \in cloned THEN Land(c, "fatal")
                   ELSE IF https \/ ~startsWith(repoUrl, "git@")
                     THEN [c EXCEPT !.pc = "c.https"]
                   ELSE [c EXCEPT !.pc = "c.try"]
  /\ UNCHANGED <<storeFile, gitcfg, remote, cloned, keyFiles, clock, up, bindLog>>
  /\ BindUnchanged

\* trySSHClone up to the clone: the keys found, the key chosen, the test and
\* the answer to "Try cloning anyway?"
CloneTry ==
  /\ cmd.pc = "c.try"
  /\ IF keyFiles = {} THEN cmd' = [cmd EXCEPT !.pc = "c.fallback"]
     ELSE \E selectedKey \in keyFiles, testOk \in BOOLEAN, tryAnyway \in BOOLEAN :
            cmd' = IF testOk \/ tryAnyway
                     THEN [cmd EXCEPT !.pc = "c.git", !.key = selectedKey]
                   ELSE [cmd EXCEPT !.pc = "c.fallback"]
  /\ UNCHANGED <<storeFile, gitcfg, remote, cloned, keyFiles, clock, up, bindLog>>
  /\ BindUnchanged

\* gitWrapper.clone(repoUrl, fullTargetPath, selectedKey.path): cloneWithSSH
\* and its text edit of .git/config, GitWrapper's own HTTPS fallback when
\* cloneWithSSH throws
CloneGit ==
  /\ cmd.pc = "c.git"
  /\ LET r == RepoAt(cmd.path)
     IN \E outcome \in {"ssh", "ssh, config not written", "https", "throw"} :
          /\ outcome \in {"ssh", "ssh, config not written"} => cmd.key \in keyFiles
          /\ IF outcome = "throw"
               THEN /\ cmd' = [cmd EXCEPT !.pc = "c.fallback"]
                    /\ UNCHANGED <<cloned, remote, gitcfg>>
             ELSE /\ cmd' = [cmd EXCEPT !.pc = "configure", !.ret = "fix.check",
                                        !.onThrow = "c.fallback",
                                        !.writeFailed = (outcome = "ssh, config not written")]
                  /\ cloned' = cloned \cup {r}
                  /\ remote' = [remote EXCEPT ![r] =
                                  IF outcome = "https" THEN convertToHTTPS(cmd.url)
                                  ELSE cmd.url]
                  /\ gitcfg' = [gitcfg EXCEPT ![r] =
                                  IF outcome = "ssh" THEN cloneWithSSHValue(cmd.key)
                                  ELSE NoDirective]
  /\ UNCHANGED <<storeFile, keyFiles, clock, up, bindLog>>
  /\ BindUnchanged

\* execute after trySSHClone returned false: exit 1 when the directory is
\* there, cloneWithHTTPS with the converted URL otherwise
CloneFallback ==
  /\ cmd.pc = "c.fallback"
  /\ cmd' = IF RepoAt(cmd.path) \in cloned THEN Land(cmd, "fatal")
            ELSE [cmd EXCEPT !.pc = "c.https", !.url = convertToHTTPS(cmd.url),
                             !.key = NoKey]
  /\ UNCHANGED <<storeFile, gitcfg, remote, cloned, keyFiles, clock, up, bindLog>>
  /\ BindUnchanged

\* CloneCommand.cloneWithHTTPS up to configureRepo
CloneHttps ==
  /\ cmd.pc = "c.https"
  /\ LET r == RepoAt(cmd.path)
         httpsUrl == IF startsWith(cmd.url, "git@") THEN convertToHTTPS(cmd.url)
                     ELSE cmd.url
     IN \E clonedOk \in BOOLEAN :
          IF clonedOk
            THEN /\ cmd' = [cmd EXCEPT !.pc = "configure", !.url = httpsUrl,
                                       !.key = NoKey, !.ret = "success",
                                       !.onThrow = "fatal"]
                 /\ cloned' = cloned \cup {r}
                 /\ remote' = [remote EXCEPT ![r] = httpsUrl]
                 /\ gitcfg' = [gitcfg EXCEPT ![r] = NoDirective]
          ELSE /\ cmd' = Land(cmd, "fatal")
               /\ UNCHANGED <<cloned, remote, gitcfg>>
  /\ UNCHANGED <<storeFile, keyFiles, clock, up, bindLog>>
  /\ BindUnchanged

\* gitWrapper.configureRepo(path, key) of clone and convert, its errors only
\* warned about, and the call of setRepoConfig that follows it
Configure ==
  /\ cmd.pc = "configure"
  /\ LET r == RepoAt(cmd.path)
     IN \E configured \in BOOLEAN :
          /\ gitcfg' = IF ~configured THEN gitcfg
                       ELSE IF cmd.key # NoKey
                         THEN [gitcfg EXCEPT ![r] = configureRepoValue(cmd.key)]
                       ELSE [gitcfg EXCEPT ![r] = NoDirective]
          /\ cmd' = [cmd EXCEPT !.pc = "upsert",
                                !.writeFailed = @ \/ (~configured /\ cmd.key # NoKey)]
  /\ up' = CallSetRepoConfig(cmd.path, cmd.key, cmd.url)
  /\ UNCHANGED <<storeFile, remote, cloned, keyFiles, clock, bindLog>>
  /\ BindUnchanged

\* ----------------------------------------------- ConvertCommand (convert.ts)

\* the answer to "proceed anyway?" not looked at
mayProceedUnasked(testOk, proceedAnyway) == TRUE

\* testResult.success, or proceedAnyway after a failed test
mayProceed(testOk, proceedAnyway) == testOk \/ proceedAnyway

\* execute up to "Updating repository configuration...": the checks, the
\* question about HTTPS, the key chosen, the test and the answer to "proceed
\* anyway?"
ConvBegin ==
  /\ cmd.pc = "idle" /\ Len(bindLog) < MaxCmds
  /\ \E r \in RepoIds :
       \E repoPath \in PathSpellings(r) :
         LET fullRepoPath == pathResolve(repoPath)
             remoteUrl == remote[r]
             c == [CmdIdle EXCEPT !.name = "convert", !.path = fullRepoPath,
                                  !.url = remoteUrl]
         IN IF r \notin cloned \/ remoteUrl = NoUrl \/ keyFiles = {}
              THEN cmd' = Returned(c)
            ELSE \E switchToSSH \in BOOLEAN, selectedKey \in keyFiles,
                    testOk \in BOOLEAN, proceedAnyway \in BOOLEAN :
                   LET isHttps == startsWith(remoteUrl, "https://")
                       targetUrl == IF isHttps THEN convertHttpsToSsh(remoteUrl)
                                    ELSE remoteUrl
                   IN cmd' =
                        IF isHttps /\ (~switchToSSH \/ targetUrl = NoUrl)
                          THEN Returned(c)
                        ELSE IF ~mayProceed(testOk, proceedAnyway)
                          THEN Returned([c EXCEPT !.switchToSSH = isHttps])
                        ELSE [c EXCEPT !.pc = IF isHttps THEN "conv.seturl"
                                              ELSE "configure",
                                       !.url = targetUrl, !.key = selectedKey,
                                       !.ret = "success", !.onThrow = "fatal",
                                       !.switchToSSH = isHttps,
                                       !.testOk = testOk,
                                       !.proceedAnyway = ~testOk /\ proceedAnyway]
  /\ UNCHANGED <<storeFile, gitcfg, remote, cloned, keyFiles, clock, up, bindLog>>
  /\ BindUnchanged

\* GitWrapper.setRemoteUrl: origin of the repository gets the URL.
setRemoteUrl(remotes, r, targetUrl) == [remotes EXCEPT ![r] = targetUrl]

\* execute: await this.gitWrapper.setRemoteUrl(fullRepoPath, targetUrl) when
\* the URL changed; what it throws ends the command with exit code 1
ConvSetUrl ==
  /\ cmd.pc = "conv.seturl"
  /\ \E urlSet \in BOOLEAN :
       IF urlSet
         THEN /\ remote' = setRemoteUrl(remote, RepoAt(cmd.path), cmd.url)
              /\ cmd' = [cmd EXCEPT !.pc = "configure"]
       ELSE /\ remote' = remote
            /\ cmd' = Land(cmd, "fatal")
  /\ UNCHANGED <<storeFile, gitcfg, cloned, keyFiles, clock, up, bindLog>>
  /\ BindUnchanged

\* ------------------------------------------------- FixCommand (fix.ts)

\* The key path in a core.sshCommand value: what follows ssh -i, without its
\* quotes, up to the options; NoKey when there is no directive.
DirectiveKey(value) ==
  IF value = NoDirective THEN NoKey
  ELSE LET v == StripQuotes(value)
           opts == {OptsFull[i] : i \in 1..Len(OptsFull)}
           e == RunEnd(v, 2, {x \in {v[k] : k \in 1..Len(v)} : x \notin opts})
       IN SubSeq(v, 2, e)

\* The directive names the file that keyPath names.
KeysAgree(value, keyPath) ==
  /\ DirectiveKey(value) # NoKey
  /\ ReplaceBackslashes(DirectiveKey(value)) = ReplaceBackslashes(keyPath)

\* The store holds a binding for the repository at p that core.sshCommand of
\* the repository does not agree with.
Disagree(file, configs, p) ==
  \E q \in DOMAIN file.repositories :
    /\ RepoAt(q) = RepoAt(p)
    /\ ~KeysAgree(configs[RepoAt(p)], file.repositories[q].sshKeyPath)

\* gitsm fix <repoPath>: the path is used as it is given
FixBegin ==
  /\ cmd.pc = "idle" /\ Len(bindLog) < MaxCmds
  /\ \E r \in RepoIds :
       \E repoPath \in PathSpellings(r) :
         cmd' = [CmdIdle EXCEPT !.name = "fix", !.pc = "fix.check",
                                !.path = repoPath,
                                !.disagreed = Disagree(storeFile, gitcfg, repoPath)]
  /\ UNCHANGED <<storeFile, gitcfg, remote, cloned, keyFiles, clock, up, bindLog>>
  /\ BindUnchanged

\* execute up to the key it settles on: the binding stored under repoPath when
\* its key file is there, a key chosen among the keys found otherwise
FixCheck ==
  /\ cmd.pc = "fix.check"
  /\ LET r == RepoAt(cmd.path)
         currentUrl == remote[r]
     IN IF r \notin cloned \/ currentUrl = NoUrl \/ ~startsWith(currentUrl, "git@")
          THEN /\ cmd' = [cmd EXCEPT !.pc = "fix.end"]
               /\ storeFile' = storeFile
        ELSE LET config == loadConfig(storeFile)
                 bound == cmd.path \in DOMAIN config.repositories
                 sshKeyPath == IF bound THEN config.repositories[cmd.path].sshKeyPath
                               ELSE NoKey
                 keyExists == sshKeyPath # NoKey /\ sshKeyPath \in keyFiles
             IN /\ storeFile' = writeJson(config)
                /\ IF keyExists
                     THEN cmd' = [cmd EXCEPT !.pc = "fix.write", !.url = currentUrl,
                                             !.key = sshKeyPath]
                   ELSE IF keyFiles = {} THEN cmd' = [cmd EXCEPT !.pc = "fix.end"]
                   ELSE \E selectedKey \in keyFiles :
                          cmd' = [cmd EXCEPT !.pc = "fix.write", !.url = currentUrl,
                                             !.key = selectedKey,
                                             !.prompted = TRUE]
  /\ UNCHANGED <<gitcfg, remote, cloned, keyFiles, clock, up, bindLog>>
  /\ BindUnchanged

\* execFileSync('git', ['config', 'core.sshCommand', sshConfigValue]) and the
\* call of setRepoConfig that follows it
FixWrite ==
  /\ cmd.pc = "fix.write"
  /\ \E written \in BOOLEAN :
       IF written
         THEN /\ gitcfg' = [gitcfg EXCEPT ![RepoAt(cmd.path)] = sshConfigValue(cmd.key)]
              /\ cmd' = [cmd EXCEPT !.pc = "upsert",
                                    !.ret = IF cmd.name = "fix" THEN "success"
                                            ELSE "fix.end",
                                    !.onThrow = "fix.end"]
              /\ up' = CallSetRepoConfig(cmd.path, cmd.key, cmd.url)
       ELSE /\ cmd' = [cmd EXCEPT !.pc = "fix.end", !.writeFailed = TRUE]
            /\ UNCHANGED <<gitcfg, up>>
  /\ UNCHANGED <<storeFile, remote, cloned, keyFiles, clock, bindLog>>
  /\ BindUnchanged

\* execute returns without the message of success: to the shell with exit
\* code 0, or to trySSHClone, which goes on to its own message of success
FixEnd ==
  /\ cmd.pc = "fix.end"
  /\ cmd' = IF cmd.name = "clone" THEN Land(cmd, "success") ELSE Returned(cmd)
  /\ UNCHANGED <<storeFile, gitcfg, remote, cloned, keyFiles, clock, up, bindLog>>
  /\ BindUnchanged

\* the process ends
CmdEnd ==
  /\ cmd.pc = "done"
  /\ bindLog' = Append(bindLog, [name |-> cmd.name, success |-> cmd.success,
                                 exit |-> cmd.exit])
  /\ cmd' = CmdIdle
  /\ UNCHANGED <<storeFile, gitcfg, remote, cloned, keyFiles, clock, up>>
  /\ BindUnchanged

\* Between two commands the user deletes a key file from ~/.ssh.
KeyRemoved ==
  /\ cmd.pc = "idle" /\ Len(bindLog) < MaxCmds
  /\ \E k \in keyFiles : keyFiles' = keyFiles \ {k}
  /\ UNCHANGED <<storeFile, gitcfg, remote, cloned, clock, cmd, up, bindLog>>
  /\ BindUnchanged

\* ------------------------------------------------------ bind: specification

\* No store file yet, r2 a repository made with plain git, r1 not cloned yet.
BindInit ==
  /\ storeFile = StoreAbsent
  /\ gitcfg = [r \in RepoIds |-> NoDirective]
  /\ \E u \in {SshUrl("r2"), HttpsUrl("r2"), NoUrl} :
       remote = [r \in RepoIds |-> IF r = "r2" THEN u ELSE NoUrl]
  /\ cloned = {"r2"}
  /\ keyFiles \in SUBSET BindKeys
  /\ clock = 1
  /\ cmd = CmdIdle /\ up = UpIdle /\ bindLog = <<>>

BindNext ==
  \/ CloneBegin \/ CloneTry \/ CloneGit \/ CloneFallback \/ CloneHttps
  \/ Configure \/ UpSave \/ UpGitConfig \/ UpReturn
  \/ ConvBegin \/ ConvSetUrl
  \/ FixBegin \/ FixCheck \/ FixWrite \/ FixEnd
  \/ CmdEnd \/ KeyRemoved

BindStart == SwitchParked /\ BindInit /\ ReconcileParked /\ KeysParked

SpecBind == BindStart /\ [][BindNext]_vars

\* ---------------------------------------------------------- claims: bind

\* C4: when clone over SSH, convert or fix ends with its message of success
\* for key path K, core.sshCommand of the repository is
\* ssh -i "<K with forward slashes>" followed by the full options.
C4_CanonicalDirective ==
  (cmd.pc = "done" /\ cmd.success /\ cmd.key # NoKey) =>
    gitcfg[RepoAt(cmd.path)] = sshConfigValue(cmd.key)

\* C5: once setRepoConfig has written a binding with an empty key path, the
\* repository has no core.sshCommand directive.
C5_EmptyKeyNoDirective ==
  (up.pc = "return" /\ up.result = "ok" /\ up.sshKeyPath = NoKey) =>
    gitcfg[RepoAt(up.repoPath)] = NoDirective

\* C8: the store holds at most one binding for a repository, whatever the
\* spelling of its path the commands were given.
C8_OneBindingPerRepo ==
  LET repos == loadConfig(storeFile).repositories
  IN \A p, q \in DOMAIN repos : RepoAt(p) = RepoAt(q) => p = q

\* The step in which setRepoConfig saves the store.
IsUpsertSave == up.pc = "save" /\ up'.pc = "gitconfig"

\* C9: a save by setRepoConfig for a path not in the store adds exactly one
\* entry, for a path in the store it overwrites the entry and the number of
\* entries stays; every other entry and defaultSSHPath stay as they are; no
\* step removes an entry.
C9_UpsertFrame ==
  [][LET old == loadConfig(storeFile)
         new == loadConfig(storeFile')
         p == up.repoPath
     IN /\ DOMAIN old.repositories \subseteq DOMAIN new.repositories
        /\ new.defaultSSHPath = old.defaultSSHPath
        /\ IF IsUpsertSave
             THEN /\ DOMAIN new.repositories = DOMAIN old.repositories \cup {p}
                  /\ Cardinality(DOMAIN new.repositories)
                       = Cardinality(DOMAIN old.repositories)
                           + (IF p \in DOMAIN old.repositories THEN 0 ELSE 1)
                  /\ \A q \in DOMAIN old.repositories \ {p} :
                       new.repositories[q] = old.repositories[q]
                  /\ new.repositories[p].sshKeyPath = up.sshKeyPath
                  /\ new.repositories[p].remoteUrl = up.remoteUrl
           ELSE new.repositories = old.repositories]_vars

\* setRepoConfig has just overwritten an entry of a store of two entries.
C9_Witness ==
  /\ up.pc = "gitconfig" /\ up.existed
  /\ Cardinality(DOMAIN storeFile.repositories) >= 2

\* The store holds the binding the running setRepoConfig was called with.
UpsertSaved ==
  /\ storeFile.present
  /\ up.repoPath \in DOMAIN storeFile.repositories
  /\ storeFile.repositories[up.repoPath].sshKeyPath = up.sshKeyPath
  /\ storeFile.repositories[up.repoPath].remoteUrl = up.remoteUrl

\* C10: setRepoConfig reaches the write of the Git configuration with the
\* binding saved; when that write fails the binding is still in the store and
\* setRepoConfig throws.
C10_SaveThenConfig ==
  /\ up.pc = "gitconfig" => UpsertSaved
  /\ up.failedAt = "gitconfig" => (UpsertSaved /\ up.result = "throw")

\* The write of the Git configuration has failed inside setRepoConfig.
C10_Witness == up.pc = "return" /\ up.failedAt = "gitconfig"

\* The paths under which the store holds a binding for the repository at p.
BindingsOf(p) ==
  {q \in DOMAIN loadConfig(storeFile).repositories : RepoAt(q) = RepoAt(p)}

\* C11: fix has settled on a key: it asked for a selection exactly when the
\* repository has no stored binding whose key file exists, and a key it did not
\* ask for is the stored one.
C11_RepairKeyChoice ==
  (cmd.pc = "fix.write") =>
    LET repos == loadConfig(storeFile).repositories
        bs == BindingsOf(cmd.path)
    IN /\ cmd.prompted <=> (\A q \in bs : repos[q].sshKeyPath \notin keyFiles)
       /\ ~cmd.prompted => (\E q \in bs : repos[q].sshKeyPath = cmd.key)

\* C12: a fix run gives up before it has a key to write only when the directory
\* is not a repository, has no remote, or no key is available; in every other
\* run it rewrites core.sshCommand and upserts the binding, whatever the form
\* of the remote URL.
C12_FullReconciliation ==
  (cmd.name = "fix" /\ cmd.pc = "fix.end" /\ cmd.key = NoKey) =>
    LET r == RepoAt(cmd.path)
    IN r \notin cloned \/ remote[r] = NoUrl \/ keyFiles = {}

\* C13: in clone over SSH and in convert, once a write of core.sshCommand or of
\* the store has failed, setRepoConfig is not entered for the key and the
\* command ends with exit code 1 and without its message of success.
C13_AbortOnWriteFailure ==
  (cmd.name \in {"clone", "convert"} /\ cmd.key # NoKey /\ cmd.writeFailed) =>
    /\ up.pc # "save"
    /\ cmd.pc = "done" => (~cmd.success /\ cmd.exit = 1)

\* The finished command met a fatal error: the directory is not a repository,
\* it has no remote, or a write of the store or of the configuration failed.
EndedInFatalError ==
  /\ cmd.pc = "done"
  /\ \/ RepoAt(cmd.path) \notin cloned
     \/ remote[RepoAt(cmd.path)] = NoUrl
     \/ cmd.writeFailed

\* C14: a clone, fix or convert run that met a fatal error ends with exit code
\* 1, and a run that ends with exit code 0 met none.
C14_FatalExitCode == EndedInFatalError => cmd.exit = 1

\* --------------------------------------- the key tester (SSHManager.testSSHKey)

\* The tokens that hold a '.' character.
HasDot(t) == t \in {".", ".git", "github.com", "gitlab.com"}

\* Index of the first token sep of s after position i, 0 when there is none.
IndexAfter(s, i, sep) ==
  LET hits == {k \in (i + 1)..Len(s) : s[k] = sep}
  IN IF hits = {} THEN 0 ELSE CHOOSE k \in hits : \A j \in hits : k <= j

\* <host><hostSep><owner>/<repo>(.git)? from position i + 1 to the end of the
\* URL: host without hostSep, owner without '/', repo without '.'
RepoInfoAfter(url, i, hostSep) ==
  LET n == Len(url)
      c == IndexAfter(url, i, hostSep)
      s == IF c = 0 THEN 0 ELSE IndexAfter(url, c, "/")
      e == IF s = 0 THEN 0
           ELSE RunEnd(url, s + 1, {t \in {url[k] : k \in 1..n} : ~HasDot(t)})
  IN IF c > i + 1 /\ s > c + 1 /\ e > s
          /\ SubSeq(url, e + 1, n) \in {<<>>, <<".git">>}
       THEN [ok |-> TRUE, host |-> SubSeq(url, i + 1, c - 1),
             owner |-> SubSeq(url, c + 1, s - 1), repo |-> SubSeq(url, s + 1, e)]
     ELSE [ok |-> FALSE, host |-> <<>>, owner |-> <<>>, repo |-> <<>>]

\* extractRepoInfo: /git@([^:]+):([^\/]+)\/([^\.]+)(?:\.git)?$/, then
\* /https:\/\/([^\/]+)\/([^\/]+)\/([^\.]+)(?:\.git)?$/; ok = FALSE stands for
\* the Error it throws when neither matches
extractRepoInfo(repoUrl) ==
  LET n == Len(repoUrl)
      sshAt == {i \in 1..n : repoUrl[i] = "git@" /\ RepoInfoAfter(repoUrl, i, ":").ok}
      httpsAt == {i \in 1..n : repoUrl[i] = "https://"
                                 /\ RepoInfoAfter(repoUrl, i, "/").ok}
  IN IF sshAt # {}
       THEN RepoInfoAfter(repoUrl, CHOOSE i \in sshAt : \A j \in sshAt : i <= j, ":")
     ELSE IF httpsAt # {}
       THEN RepoInfoAfter(repoUrl, CHOOSE i \in httpsAt : \A j \in httpsAt : i <= j, "/")
     ELSE [ok |-> FALSE, host |-> <<>>, owner |-> <<>>, repo |-> <<>>]

\* The patterns of basicAuthSuccess: a provider greeting, or /Hi \w+!/
Greetings ==
  {"You've successfully authenticated", "Welcome to GitLab", "logged in as",
   "You can use git or hg to connect"}
Words == {"octocat"}
MatchesGreeting(output) ==
  \E i \in 1..Len(output) :
    \/ output[i] \in Greetings
    \/ /\ output[i] = "Hi " /\ i + 2 <= Len(output)
       /\ output[i + 1] \in Words /\ output[i + 2] = "!"

\* What execSync gives for a child process: it returns when the process exits
\* with 0, it throws an error that carries stdout, stderr and a message
\* otherwise (exit code not 0, or killed at the timeout).
Throws(run) == run.timedOut \/ run.exit # 0
ErrorMessage(run) ==
  IF run.timedOut THEN <<"spawnSync /bin/sh ETIMEDOUT">>
  ELSE <<"Command failed: ", "\n">> \o run.stderr

\* error.stdout || error.stderr || error.message || ''
ErrorOutput(run) ==
  IF run.stdout # <<>> THEN run.stdout
  ELSE IF run.stderr # <<>> THEN run.stderr
  ELSE ErrorMessage(run)

\* error.toString().toLowerCase() of the git ls-remote run holds the phrase
Includes(run, phrase) ==
  \E i \in 1..Len(ErrorMessage(run)) : ErrorMessage(run)[i] = phrase

\* testSSHKey(keyPath, repoUrl), probe the ssh -T run and ls the git ls-remote
\* run; probed records that the ssh -T run was made, and against which host
testSSHKey(repoUrl, probe, ls) ==
  LET info == extractRepoInfo(repoUrl)
      none == [success |-> FALSE, error |-> "", threw |-> FALSE,
               probed |-> FALSE, host |-> <<>>]
  IN IF ~info.ok
       THEN [none EXCEPT !.error = "SSH test failed"]
     ELSE IF Throws(probe) /\ ~MatchesGreeting(ErrorOutput(probe))
       THEN [none EXCEPT !.error = "Failed to authenticate", !.probed = TRUE,
                         !.host = info.host]
     ELSE IF ~Throws(ls)
       THEN [none EXCEPT !.success = TRUE, !.probed = TRUE, !.host = info.host]
     ELSE [none EXCEPT !.probed = TRUE, !.host = info.host,
                       !.error = IF Includes(ls, "permission denied")
                                      \/ Includes(ls, "access denied")
                                   THEN "You don't have access"
                                 ELSE IF Includes(ls, "repository not found")
                                   THEN "Repository not found"
                                 ELSE "Failed to verify repository access"]

\* The remote URLs given to the tester: SSH and HTTPS syntax, a repository
\* name with a dot, and URL forms that are neither.
TestUrls ==
  {SshUrl("r1"), HttpsUrl("r1"),
   <<"git@", "gitlab.com", ":", "u", "/", "r1">>,
   <<"git@", "github.com", ":", "u", "/", "my", ".", "repo", ".git">>,
   <<"ssh://", "git@", "github.com", "/", "u", "/", "r1", ".git">>,
   <<"/srv/", "r1", ".git">>}

\* The ssh -T runs: the exit code, killed at the timeout or not, stdout, stderr
ProbeRuns ==
  {[exit |-> x, timedOut |-> FALSE, stdout |-> o, stderr |-> e] :
     x \in {0, 1, 255},
     o \in {<<>>, <<"Last login: today", "\n">>},
     e \in {<<>>, <<"Hi ", "octocat", "!", " ", "You've successfully authenticated">>,
            <<"Welcome to GitLab", ", @u!">>,
            <<"git@github.com: Permission denied (publickey).">>}}
    \cup {[exit |-> 255, timedOut |-> TRUE, stdout |-> <<>>, stderr |-> <<>>]}

\* The git ls-remote runs
LsRemoteRuns ==
  {[exit |-> 0, timedOut |-> FALSE, stdout |-> <<"abc123", "\t", "HEAD">>,
    stderr |-> <<>>],
   [exit |-> 128, timedOut |-> FALSE, stdout |-> <<>>,
    stderr |-> <<"ERROR: ", "repository not found", ".">>],
   [exit |-> 128, timedOut |-> FALSE, stdout |-> <<>>,
    stderr |-> <<"permission denied", " (publickey).">>],
   [exit |-> 128, timedOut |-> TRUE, stdout |-> <<>>, stderr |-> <<>>]}

NoResult ==
  [success |-> FALSE, error |-> "", threw |-> FALSE, probed |-> FALSE,
   host |-> <<>>]

\* A caller awaits testSSHKey(keyPath, repoUrl)
TestRun ==
  /\ tst.pc = "ready"
  /\ tst' = [tst EXCEPT !.pc = "done",
                        !.result = testSSHKey(tst.repoUrl, tst.probe, tst.ls)]
  /\ UNCHANGED <<switchVars, bindVars, reconcileVars, scan>>

TestInit ==
  /\ \E u \in TestUrls, p \in ProbeRuns, l \in LsRemoteRuns :
       tst = [pc |-> "ready", repoUrl |-> u, probe |-> p, ls |-> l,
              result |-> NoResult]
  /\ scan = <<>>

TestNext == TestRun

TestStart == SwitchParked /\ BindParked /\ ReconcileParked /\ TestInit

SpecTest == TestStart /\ [][TestNext]_vars

\* ------------------------------------------------------- claims: key tester

\* stdout and stderr of the probe hold a provider greeting
ProbeGreets(run) == MatchesGreeting(run.stdout \o run.stderr)

\* C15: a finished test whose ssh -T run printed a provider greeting, or exited
\* with 0, reports success, whatever else happened.
C15_GreetingIsSuccess ==
  (tst.pc = "done" /\ tst.result.probed) =>
    /\ ProbeGreets(tst.probe) => tst.result.success
    /\ (tst.probe.exit = 0 /\ ~tst.probe.timedOut) => tst.result.success

\* C16: a finished test has thrown nothing; for a URL that cannot be parsed
\* the probe was run against the default host, and a probe killed at the
\* timeout gives success = false.
C16_NeverThrows ==
  tst.pc = "done" =>
    /\ ~tst.result.threw
    /\ ~extractRepoInfo(tst.repoUrl).ok =>
         (tst.result.probed /\ tst.result.host = <<"github.com">>)
    /\ tst.probe.timedOut => ~tst.result.success

\* --------------------------------- the key scanner (SSHManager.discoverSSHKeys)

MaxFiles == 4

\* The names an entry of ~/.ssh may have.
PubOf(name) == name \o <<".pub">>
PrivateNames ==
  {<<"id_ed25519">>, <<"id_rsa">>, <<"known_hosts">>, <<"config">>,
   <<"authorized_keys">>, <<"id_rsa_", "config">>, <<".", "hidden">>}
EntryNames == PrivateNames \cup {PubOf(n) : n \in {<<"id_ed25519">>, <<"id_rsa">>,
                                   <<"known_hosts">>, <<"id_rsa_", "config">>,
                                   <<".", "hidden">>}}

\* file.endsWith('.pub'), file.includes(word), file.startsWith('.')
endsWithPub(file) == file[Len(file)] = ".pub"
includes(file, word) == \E i \in 1..Len(file) : file[i] = word
startsWithDot(file) == file[1] \in {".", ".pub"}

\* The filter of discoverSSHKeys on the names readdir gives
IsKeyFile(file) ==
  /\ ~endsWithPub(file)
  /\ ~includes(file, "known_hosts")
  /\ ~includes(file, "config")
  /\ ~includes(file, "authorized_keys")
  /\ ~startsWithDot(file)

\* A validateKeyFile without the try/catch around fs.access.
validateKeyFileUncaught(files, unreadable, keyFile) ==
  IF PubOf(keyFile) \notin files THEN "invalid"
  ELSE IF keyFile \in unreadable \/ PubOf(keyFile) \in unreadable THEN "throw"
  ELSE "valid"

\* validateKeyFile: "invalid" for its return false, which is also what its
\* try/catch makes of an error of fs.access; it throws nothing
validateKeyFile(files, unreadable, keyFile) ==
  IF PubOf(keyFile) \notin files THEN "invalid"
  ELSE IF keyFile \in unreadable \/ PubOf(keyFile) \in unreadable THEN "invalid"
  ELSE "valid"

\* The SSHKey pushed for an entry
SSHKeyOf(keyFile) ==
  [name |-> keyFile, path |-> <<"/home/u/.ssh/">> \o keyFile,
   publicKeyPath |-> <<"/home/u/.ssh/">> \o PubOf(keyFile)]

\* discoverSSHKeys: the directory made when it is missing, readdir, the filter,
\* the loop over the candidates; whatever is thrown inside its try block ends
\* in the catch that returns []
discoverSSHKeys(dir) ==
  LET none == [keys |-> {}, threw |-> FALSE]
  IN IF dir.state # "ok" THEN none
     ELSE LET candidates == {f \in dir.files : IsKeyFile(f)}
              outcome == [f \in candidates |->
                            validateKeyFile(dir.files, dir.unreadable, f)]
          IN IF \E f \in candidates : outcome[f] = "throw" THEN none
             ELSE [none EXCEPT !.keys =
                     {SSHKeyOf(f) : f \in {g \in candidates : outcome[g] = "valid"}}]

\* ~/.ssh as a call finds it: missing (and then made, or ensureDir or chmod
\* fails), unreadable, or a directory with entries, some of them unreadable
SshDirs ==
  {[state |-> s, files |-> {}, unreadable |-> {}] :
     s \in {"missing", "ensureDir fails", "chmod fails", "readdir fails"}}
  \cup {[state |-> s, files |-> fs, unreadable |-> us] :
          s \in {"ok", "readdir fails"},
          fs \in {x \in SUBSET EntryNames : Cardinality(x) <= MaxFiles},
          us \in {x \in SUBSET EntryNames : Cardinality(x) <= 1}}

\* A caller awaits discoverSSHKeys()
ScanRun ==
  /\ scan.pc = "ready"
  /\ scan' = [scan EXCEPT !.pc = "done", !.result = discoverSSHKeys(scan.dir)]
  /\ UNCHANGED <<switchVars, bindVars, reconcileVars, tst>>

ScanInit ==
  /\ \E d \in SshDirs :
       /\ d.unreadable \subseteq d.files
       /\ scan = [pc |-> "ready", dir |-> d, result |-> [keys |-> {}, threw |-> FALSE]]
  /\ tst = <<>>

ScanNext == ScanRun

ScanStart == SwitchParked /\ BindParked /\ ReconcileParked /\ ScanInit

SpecScan == ScanStart /\ [][ScanNext]_vars

\* -------------------------------------------------------- claims: key scanner

\* The entry is a private key with a sibling .pub, both readable.
Validates(dir, f) ==
  /\ f \in dir.files /\ PubOf(f) \in dir.files
  /\ f \notin dir.unreadable /\ PubOf(f) \notin dir.unreadable

\* C17: a finished scan has thrown nothing; it returns no key when the
\* directory is missing, cannot be made or cannot be read; and an entry that
\* fails validation does not keep the candidates that validate from being
\* returned.
C17_ScanNeverThrows ==
  scan.pc = "done" =>
    /\ ~scan.result.threw
    /\ scan.dir.state # "ok" => scan.result.keys = {}
    /\ scan.dir.state = "ok" =>
         \A f \in scan.dir.files :
           (IsKeyFile(f) /\ Validates(scan.dir, f)) => SSHKeyOf(f) \in scan.result.keys

\* A finished scan of a directory with an unreadable candidate returned a key.
C17_Witness ==
  /\ scan.pc = "done" /\ scan.dir.state = "ok"
  /\ \E f \in scan.dir.unreadable : IsKeyFile(f)
  /\ scan.result.keys # {}

\* The name is none of known_hosts, config, authorized_keys, does not end in
\* .pub and does not start with '.'.
IsCandidateName(f) ==
  /\ ~endsWithPub(f)
  /\ f \notin {<<"known_hosts">>, <<"config">>, <<"authorized_keys">>}
  /\ ~startsWithDot(f)

\* C18: a scan of a readable directory returns an entry if and only if its
\* name is a candidate name and the entry and its sibling .pub are there and
\* readable.
C18_DiscoveryFilter ==
  (scan.pc = "done" /\ scan.dir.state = "ok") =>
    \A f \in EntryNames :
      SSHKeyOf(f) \in scan.result.keys <=> (IsCandidateName(f) /\ Validates(scan.dir, f))

\* ------------------------------------------------ claims on stash and force

\* the run r has executed the git command c
RanCmd(r, c) == \E i \in 1..Len(r.cmds) : r.cmds[i] = c

\* C19: a switch run executes git stash push only when the working tree is
\* dirty and force is not set, a run that got past the stash step with a dirty
\* tree and without force has executed it, and a run with force set executes
\* no stash push, stash apply or stash drop.
C19_StashUnlessForced ==
  /\ RanCmd(sw, "stash push") => (sw.hasChanges /\ ~sw.force)
  /\ (sw.pc \in {"checkout", "pull", "apply", "check"} /\ sw.hasChanges /\ ~sw.force)
       => RanCmd(sw, "stash push")
  /\ sw.force => \A c \in {"stash push", "stash apply", "stash drop"} : ~RanCmd(sw, c)

\* the run r was started on its own target branch
SameBranchRun(r) == r.pc # "idle" /\ r.from = r.target

\* C20: a switch run started on its target branch executes no command but
\* git pull, executes none with pull suppressed, and no step of it changes the
\* stash list or the current branch.
C20_SameBranchFrame ==
  [][/\ SameBranchRun(sw) => (stash' = stash /\ branch' = branch)
     /\ SameBranchRun(sw') =>
          /\ \A i \in 1..Len(sw'.cmds) : sw'.cmds[i] = "pull"
          /\ sw'.noPull => sw'.cmds = <<>>]_vars

\* A run on its target branch with a dirty working tree has pulled and ended.
C20_Witness ==
  /\ SameBranchRun(sw) /\ sw.pc = "done"
  /\ hasUncommittedChanges
  /\ sw.cmds = <<"pull">>

\* ------------------------------------------- claims on the ends of a switch

\* C21: a switch run started on its target branch with pull not suppressed
\* ends without an error exit, whether git pull succeeded or failed.
C21_SameBranchEndsNormally ==
  (SameBranchRun(sw) /\ sw.pc = "done" /\ ~sw.noPull) => sw.exit = 0

\* the run r asks for a branch that is in neither list of known, without -b
UnknownBranchRun(r, known) ==
  /\ r.pc # "idle" /\ r.from # r.target
  /\ r.target \notin known /\ ~r.createBranch

\* C22: a switch run to a branch that exists neither locally nor on origin,
\* without creation requested, is over as soon as it has looked: exit code 1,
\* no git command that changes state executed, and no step of it changes the
\* working tree, the current branch or the stash list.
C22_UnknownBranchFailsFirst ==
  [][/\ UnknownBranchRun(sw', exists') =>
          (sw'.pc = "done" /\ sw'.exit = 1 /\ sw'.cmds = <<>>)
     /\ (UnknownBranchRun(sw, exists) \/ UnknownBranchRun(sw', exists')) =>
          (wt' = wt /\ untracked' = untracked /\ branch' = branch /\ stash' = stash)]_vars

\* A run to an unknown branch has ended on a dirty working tree.
C22_Witness ==
  /\ UnknownBranchRun(sw, exists) /\ sw.pc = "done"
  /\ wt # head[branch]

\* C23: the step after a successful checkout runs git pull unless pull was
\* suppressed, leaves the exit code at 0 whatever git pull answered, and goes
\* on to the reapply step when a stash was created; a run that has pulled
\* after a checkout and created a stash ends with stash apply executed and
\* exit code 0.
C23_PullNeverStops ==
  /\ [][sw.pc = "pull" =>
          /\ ~sw.noPull => RanCmd(sw', "pull")
          /\ sw'.exit = 0
          /\ sw.pushed # NoEntry => sw'.pc = "apply"]_vars
  /\ [](( /\ sw.pc = "done" /\ sw.from # sw.target
          /\ RanCmd(sw, "pull") /\ sw.pushed # NoEntry)
          => (RanCmd(sw, "stash apply") /\ sw.exit = 0))

\* the last git command the run r has executed
LastCmd(r) == IF r.cmds = <<>> THEN "" ELSE r.cmds[Len(r.cmds)]

\* the stash list holds the entry that the run r pushed
KeepsOwnStash(r, list) ==
  r.pushed # NoEntry => \E i \in 1..Len(list) : list[i].uid = r.pushed

\* C24: git stash drop is executed only by the step that follows a stash apply
\* that returned successfully, with no unmerged entry in the working tree, and
\* what it removes is the entry that was applied; a stash apply that fails
\* leaves the stash list as it was, and the run ends with the entry it pushed
\* still in the list; no run executes git stash pop.
C24_DropAfterCleanApply ==
  /\ [][/\ sw'.cmds = Append(sw.cmds, "stash drop") =>
             /\ sw.pc = "check" /\ LastCmd(sw) = "stash apply"
             /\ sw.applied # NoEntry /\ ~unmerged
             /\ sw'.dropped # NoEntry => sw'.dropped = sw.applied
        /\ (sw'.cmds = Append(sw.cmds, "stash apply") /\ sw'.pc = "done") =>
             stash' = stash]_vars
  /\ []((sw.pc = "done" /\ LastCmd(sw) = "stash apply") => KeepsOwnStash(sw, stash))
  /\ [](~RanCmd(sw, "stash pop"))

\* One run that pushed a stash has ended on a failed stash apply, and a later
\* run has applied an entry and dropped it.
C24_Witness ==
  /\ \E i \in 1..Len(swHist) :
       LastCmd(swHist[i]) = "stash apply" /\ swHist[i].pushed # NoEntry
  /\ sw.pc = "done" /\ LastCmd(sw) = "stash drop" /\ sw.dropped # NoEntry

\* C25: a switch run that ended with the error text 'cannot be stashed
\* automatically / commit or stash manually' has executed no git stash push.
C25_NoStashBeforeRefusal ==
  (sw.pc = "done" /\ sw.distinctError) => ~RanCmd(sw, "stash push")

\* C26: a switch run that pushed a stash and then ended on a failed checkout
\* leaves the entry it pushed in the stash list, and the identifier of that
\* stash is in what it reported to the user.
C26_StashNamedOnFailure ==
  (sw.pc = "done" /\ sw.pushed # NoEntry /\ LastCmd(sw) = "checkout" /\ sw.exit = 1) =>
    /\ KeepsOwnStash(sw, stash)
    /\ sw.reported # <<>> /\ sw.reported = sw.stashId

\* ------------------------------------------- claims on what convert and fix leave

\* C27: a step of a convert run changes the remote URL, core.sshCommand or the
\* binding store only when the key test succeeded or the user answered to
\* proceed after its failure, and the remote URL only when the user agreed to
\* the switch from HTTPS; so a run that ended on a refusal has changed nothing.
C27_ConvertAsksFirst ==
  [][((cmd.name = "convert" \/ cmd'.name = "convert") /\
      (remote' # remote \/ gitcfg' # gitcfg \/ storeFile' # storeFile)) =>
       /\ cmd.name = "convert"
       /\ cmd.testOk \/ cmd.proceedAnyway
       /\ remote' # remote => cmd.switchToSSH]_vars

\* A convert run on a repository with an SSH remote and a key to choose has
\* ended at the refusal to proceed after a failed key test.
C27_Witness ==
  /\ cmd.name = "convert" /\ cmd.pc = "done" /\ cmd.key = NoKey
  /\ keyFiles # {}
  /\ RepoAt(cmd.path) \in cloned
  /\ startsWith(remote[RepoAt(cmd.path)], "git@")

\* the store holds, under the path as given, a binding whose key file is gone
StaleBinding(file, p, keys) ==
  /\ file.present /\ p \in DOMAIN file.repositories
  /\ file.repositories[p].sshKeyPath \notin keys

\* the fix or convert run c has a reason to stop: no repository, no remote,
\* or no key to be had
StopCase(c, file, clones, remotes, keys) ==
  /\ c.name \in {"fix", "convert"}
  /\ \/ RepoAt(c.path) \notin clones
     \/ remotes[RepoAt(c.path)] = NoUrl
     \/ keys = {} /\ (c.name = "convert" \/ StaleBinding(file, c.path, keys))

\* C28: a fix or convert run on a directory that is no repository, on a
\* repository without remote, or with no key to be had (convert: none found;
\* fix: the stored key is gone and none is found) only goes to its end, selects
\* no key, and no step of it changes the binding store or core.sshCommand.
C28_StopsLeaveNoTrace ==
  [][(\/ StopCase(cmd, storeFile, cloned, remote, keyFiles)
      \/ StopCase(cmd', storeFile', cloned', remote', keyFiles')) =>
       /\ storeFile' = storeFile /\ gitcfg' = gitcfg
       /\ cmd'.pc \in {"fix.check", "fix.end", "done", "idle"}
       /\ cmd'.key = NoKey /\ ~cmd'.success]_vars

\* A fix run has ended on a repository whose stored key is gone, with no key
\* left in ~/.ssh.
C28_Witness ==
  /\ cmd.name = "fix" /\ cmd.pc = "done"
  /\ RepoAt(cmd.path) \in cloned
  /\ startsWith(remote[RepoAt(cmd.path)], "git@")
  /\ keyFiles = {} /\ StaleBinding(storeFile, cmd.path, keyFiles)

\* C29: a fix run started with a stored binding that core.sshCommand did not
\* agree with has ended with its message of success: the key path in
\* core.sshCommand and the sshKeyPath of the repository's stored binding name
\* the same key.
C29_RepairConverges ==
  (cmd.name = "fix" /\ cmd.pc = "done" /\ cmd.success /\ cmd.disagreed) =>
    ~Disagree(storeFile, gitcfg, cmd.path)

\* C30: when a clone has ended with its message of success, the store holds a
\* binding for the target directory whose remoteUrl is the origin of the
\* repository and whose sshKeyPath is empty unless the origin is an SSH URL.
C30_BindingMatchesTransport ==
  (cmd.name = "clone" /\ cmd.pc = "done" /\ cmd.success) =>
    LET r == RepoAt(cmd.path)
    IN /\ storeFile.present /\ cmd.path \in DOMAIN storeFile.repositories
       /\ storeFile.repositories[cmd.path].remoteUrl = remote[r]
       /\ storeFile.repositories[cmd.path].sshKeyPath # NoKey =>
            startsWith(remote[r], "git@")

====
